---- MODULE Spec2Model ----
(***************************************************************************)
(* Model of project100x/src/datahub.py: the DataHub fetch / cache /        *)
(* fallback pipeline (get_ohlcv_data, _download_ohlcv) and the synthetic   *)
(* OHLCV generator (_generate_simulated_ohlcv).                            *)
(*                                                                         *)
(* Dates are day numbers.  Prices are fixed-point integers with            *)
(* PriceScale units per currency unit; a multiplicative factor (1 + f) is  *)
(* carried in units of 1/FactorScale and a product is rounded down, which  *)
(* is monotone like the floating-point rounding of the source.  A data     *)
(* frame is a sequence of bar records in index order.                      *)
(***************************************************************************)
EXTENDS Integers, Sequences, FiniteSets, TLC

\* ---------------------------------------------------------------- bounds
MaxDay == 3

Days == 1..MaxDay

Tickers == {"QQQ"}

\* ------------------------------------------------------ numeric constants
PriceScale == 1000

FactorScale == 1000

InitialPriceLow == 50

InitialPriceHigh == 200

VolumeLow == 100000

VolumeHigh == 10000000

\* np.random.uniform(50, 200): the two ends of the interval
InitialPrices == {InitialPriceLow * PriceScale, InitialPriceHigh * PriceScale}

\* np.random.uniform(-0.005, 0.01): the two ends, in 1/FactorScale
WalkDraws == {-5, 10}

\* np.random.uniform(-0.002, 0.002): the two ends, in 1/FactorScale
NoiseDraws == {-2, 2}

\* np.random.uniform(0.001, 0.005): the two ends, in 1/FactorScale
SpreadDraws == {1, 5}

\* a plausible slip: the upper end is taken as inclusive
RandIntInclusive(low, high, probes) == {v \in probes : v >= low /\ v <= high}

\* np.random.randint(low, high) draws from low .. high - 1
RandInt(low, high, probes) == {v \in probes : v >= low /\ v < high}

VolumeProbes == {VolumeLow - 1, VolumeLow, VolumeHigh - 1, VolumeHigh}

VolumeDraws == RandInt(VolumeLow, VolumeHigh, VolumeProbes)

\* ------------------------------------------------------------ arithmetic
Maximum(a, b) == IF a >= b THEN a ELSE b

Minimum(a, b) == IF a <= b THEN a ELSE b

\* x * (1 + f), f in 1/FactorScale
Mul(x, f) == (x * (FactorScale + f)) \div FactorScale

\* a plausible slip: the end date is left out
DateRangeExclusive(s, e) == [i \in 1..(e - s) |-> s + i - 1]

\* pd.date_range(start, end, freq='D'): empty when start > end
DateRange(s, e) == [i \in 1..(e - s + 1) |-> s + i - 1]

\* ------------------------------------------------------ random draws
\* the draws behind one bar: open/close noise, high/low spread, volume
BarDraws ==
  { [open |-> a, close |-> b, high |-> hl[1], low |-> hl[2], volume |-> hl[3]] :
      a \in NoiseDraws, b \in NoiseDraws,
      hl \in { <<u, w, v>> \in SpreadDraws \X SpreadDraws \X VolumeDraws :
                 (u = 1) = (w = 5) /\ (u = 1) = (v = VolumeLow) } }

\* every draw the generator makes for n dates
DrawVectors(n) ==
  [ initial : InitialPrices,
    walk : [1..(n - 1) -> WalkDraws],
    bar : [1..n -> BarDraws] ]

\* ------------------------------------------------- synthetic generator
\* price_series[i] of lines 33-37
RECURSIVE PriceSeries(_, _)
PriceSeries(d, i) ==
  IF i <= 1 THEN d.initial ELSE Mul(PriceSeries(d, i - 1), d.walk[i - 1])

OpenPrice(d, i) == Mul(PriceSeries(d, i), d.bar[i].open)

ClosePrice(d, i) == Mul(PriceSeries(d, i), d.bar[i].close)

\* a plausible slip: the candidate high is built on the smaller of open and close
CandidateHighFromMin(d, i) == Mul(Minimum(OpenPrice(d, i), ClosePrice(d, i)), d.bar[i].high)

\* lines 46-47: the candidates before the clamp
CandidateHigh(d, i) == Mul(Maximum(OpenPrice(d, i), ClosePrice(d, i)), d.bar[i].high)

CandidateLow(d, i) == Mul(Minimum(OpenPrice(d, i), ClosePrice(d, i)), 0 - d.bar[i].low)

\* a plausible slip: the high is derived from the open alone and never clamped
HighFromOpenOnly(d, i) == Mul(OpenPrice(d, i), d.bar[i].high)

\* lines 50 and 52: the clamp
HighPrice(d, i) == Maximum(CandidateHigh(d, i), Maximum(OpenPrice(d, i), ClosePrice(d, i)))

LowPrice(d, i) == Minimum(CandidateLow(d, i), Minimum(OpenPrice(d, i), ClosePrice(d, i)))

generate_simulated_ohlcv(s, e, d) ==
  LET dates == DateRange(s, e)
  IN [ i \in 1..Len(dates) |->
         [ Date |-> dates[i],
           Open |-> OpenPrice(d, i),
           High |-> HighPrice(d, i),
           Low |-> LowPrice(d, i),
           Close |-> ClosePrice(d, i),
           Volume |-> d.bar[i].volume ] ]

\* ----------------------------------------------------------- predicates
OhlcOrdered(b) ==
  /\ b.Low <= b.Open /\ b.Open <= b.High
  /\ b.Low <= b.Close /\ b.Close <= b.High
  /\ b.Low <= b.High

\* ------------------------------------------------------------ provider
\* a bar as yf.download delivers it for one day (opaque, well-formed data)
ProviderBar(day) ==
  [ Date |-> day,
    Open |-> 300000 + 1000 * day,
    High |-> 300900 + 1000 * day,
    Low |-> 299500 + 1000 * day,
    Close |-> IF day % 2 = 0 THEN 300400 + 1000 * day ELSE 299800 + 1000 * day,
    Volume |-> 5000000 + day ]

\* the series the provider may deliver: any set of days, ascending by date,
\* not necessarily inside the requested range
ProviderSeries ==
  { LET ds == SelectSeq(DateRange(1, MaxDay), LAMBDA x : x \in D)
    IN [i \in 1..Len(ds) |-> ProviderBar(ds[i])] : D \in SUBSET Days }

\* yf.download either raises or returns a (possibly empty) frame
ProviderOutcomes ==
  {[raises |-> TRUE, df |-> <<>>]} \cup {[raises |-> FALSE, df |-> x] : x \in ProviderSeries}

NoProvider == [raises |-> FALSE, df |-> <<>>]

\* the draw vectors used when the hub falls back to the generator
HubSeeds ==
  { [initial |-> InitialPriceLow * PriceScale, walk |-> -5,
     bar |-> [open |-> -2, close |-> 2, high |-> 1, low |-> 5, volume |-> VolumeLow]],
    [initial |-> InitialPriceHigh * PriceScale, walk |-> 10,
     bar |-> [open |-> 2, close |-> -2, high |-> 5, low |-> 1, volume |-> VolumeHigh - 1]] }

HubDraws(n) ==
  { [initial |-> x.initial, walk |-> [i \in 1..(n - 1) |-> x.walk], bar |-> [i \in 1..n |-> x.bar]] :
      x \in HubSeeds }

\* the draws are made only when the generator runs
DrawsFor(prov, s, e) ==
  IF prov.raises \/ prov.df = <<>> THEN HubDraws(e - s + 1) ELSE {CHOOSE x \in HubDraws(1) : TRUE}

\* ---------------------------------------------------------------- store
CsvColumns == <<"Date", "Open", "High", "Low", "Close", "Volume">>

ColumnIndex(c) == CHOOSE k \in 1..Len(CsvColumns) : CsvColumns[k] = c

\* a plausible slip: the High and Low columns change places in the file
to_csv_swapped(df) ==
  [i \in 1..Len(df) |->
     <<df[i].Date, df[i].Open, df[i].Low, df[i].High, df[i].Close, df[i].Volume>>]

\* df.to_csv(file_path): one row per bar, index first, then the columns
to_csv(df) == [i \in 1..Len(df) |-> [k \in 1..Len(CsvColumns) |-> df[i][CsvColumns[k]]]]

\* pd.read_csv(file_path, index_col='Date', parse_dates=True)
read_csv(rows) ==
  [i \in 1..Len(rows) |-> [c \in {CsvColumns[k] : k \in 1..Len(CsvColumns)} |-> rows[i][ColumnIndex(c)]]]

NoFile == [exists |-> FALSE, rows |-> <<>>]

\* a plausible slip: the file is opened for appending
save_append(file, df) == [exists |-> TRUE, rows |-> file.rows \o to_csv(df)]

\* df.to_csv(file_path) replaces whatever the file held
save(file, df) == [exists |-> TRUE, rows |-> to_csv(df)]

\* a plausible slip: the end of the range is excluded
FilterRangeExclusive(df, s, e) == SelectSeq(df, LAMBDA b : b.Date >= s /\ b.Date < e)

\* df[(df.index >= start) & (df.index <= end)]
FilterRange(df, s, e) == SelectSeq(df, LAMBDA b : b.Date >= s /\ b.Date <= e)

\* --------------------------------------------------------- _download_ohlcv
\* a plausible slip: no try/except around the provider call
download_ohlcv_noexcept(s, e, prov, d) ==
  IF prov.raises
  THEN [raised |-> TRUE, df |-> <<>>, generated |-> <<>>, generatorCalls |-> 0]
  ELSE IF prov.df = <<>>
  THEN LET g == generate_simulated_ohlcv(s, e, d)
       IN [raised |-> FALSE, df |-> g, generated |-> g, generatorCalls |-> 1]
  ELSE [raised |-> FALSE, df |-> prov.df, generated |-> <<>>, generatorCalls |-> 0]

\* a plausible slip: an empty provider frame is returned as it is
download_ohlcv_noemptycheck(s, e, prov, d) ==
  IF prov.raises
  THEN LET g == generate_simulated_ohlcv(s, e, d)
       IN [raised |-> FALSE, df |-> g, generated |-> g, generatorCalls |-> 1]
  ELSE [raised |-> FALSE, df |-> prov.df, generated |-> <<>>, generatorCalls |-> 0]

\* a plausible slip: the df.empty test is inverted
download_ohlcv_inverted(s, e, prov, d) ==
  IF prov.raises
  THEN LET g == generate_simulated_ohlcv(s, e, d)
       IN [raised |-> FALSE, df |-> g, generated |-> g, generatorCalls |-> 1]
  ELSE IF prov.df # <<>>
  THEN LET g == generate_simulated_ohlcv(s, e, d)
       IN [raised |-> FALSE, df |-> g, generated |-> g, generatorCalls |-> 1]
  ELSE [raised |-> FALSE, df |-> prov.df, generated |-> <<>>, generatorCalls |-> 0]

\* lines 12-23: try yf.download; on an exception or an empty frame, generate
download_ohlcv(s, e, prov, d) ==
  IF prov.raises
  THEN LET g == generate_simulated_ohlcv(s, e, d)
       IN [raised |-> FALSE, df |-> g, generated |-> g, generatorCalls |-> 1]
  ELSE IF prov.df = <<>>
  THEN LET g == generate_simulated_ohlcv(s, e, d)
       IN [raised |-> FALSE, df |-> g, generated |-> g, generatorCalls |-> 1]
  ELSE [raised |-> FALSE, df |-> prov.df, generated |-> <<>>, generatorCalls |-> 0]

\* ------------------------------------------------------------------ state
VARIABLES files, ticker, start_date, end_date, provider, fault, pre, fetched,
          generated, providerCalls, generatorCalls, saved, path, outcome, ret,
          gPhase, gStart, gEnd, gDraws, gOut,
          calls, lastWriter, mode

hvars == <<files, ticker, start_date, end_date, provider, fault, pre, fetched,
           generated, providerCalls, generatorCalls, saved, path, outcome, ret>>

gvars == <<gPhase, gStart, gEnd, gDraws, gOut>>

\* the stepwise callers: each caller's position in get_ohlcv_data and its locals
svars == <<calls, lastWriter, mode>>

vars == <<hvars, gvars, svars>>

Callers == {"A", "B"}

IdleCall ==
  [pc |-> "START", t |-> "none", start |-> 0, end |-> 0, df |-> <<>>, path |-> <<>>,
   wrote |-> FALSE]

OffCall == [IdleCall EXCEPT !.pc = "OFF"]

\* the observables of the last whole call, before any call
NoCallYet ==
  /\ ticker = "none"
  /\ start_date = 0
  /\ end_date = 0
  /\ provider = NoProvider
  /\ fault = "none"
  /\ pre = NoFile
  /\ fetched = <<>>
  /\ generated = <<>>
  /\ providerCalls = 0
  /\ generatorCalls = 0
  /\ saved = FALSE
  /\ path = <<>>
  /\ outcome = "none"
  /\ ret = <<>>

GenIdle ==
  /\ gPhase = "idle"
  /\ gStart = 1
  /\ gEnd = 1
  /\ gDraws = CHOOSE d \in DrawVectors(1) : TRUE
  /\ gOut = <<>>

\* __init__: the data directory exists and holds no file
Init ==
  /\ gPhase = "idle"
  /\ gStart = 1
  /\ gEnd = 1
  /\ gDraws = CHOOSE d \in DrawVectors(1) : TRUE
  /\ gOut = <<>>
  /\ calls = [c \in Callers |-> OffCall]
  /\ lastWriter = "none"
  /\ mode = "off"
  /\ files = [t \in Tickers |-> NoFile]
  /\ ticker = "none"
  /\ start_date = 0
  /\ end_date = 0
  /\ provider = NoProvider
  /\ fault = "none"
  /\ pre = NoFile
  /\ fetched = <<>>
  /\ generated = <<>>
  /\ providerCalls = 0
  /\ generatorCalls = 0
  /\ saved = FALSE
  /\ path = <<>>
  /\ outcome = "none"
  /\ ret = <<>>

\* the generator as a pure function: inputs drawn in the initial state
GenInit ==
  /\ gPhase = "ready"
  /\ gStart \in Days
  /\ gEnd \in Days
  /\ gDraws \in DrawVectors(gEnd - gStart + 1)
  /\ gOut = <<>>
  /\ calls = [c \in Callers |-> OffCall]
  /\ lastWriter = "none"
  /\ mode = "off"
  /\ files = [t \in Tickers |-> NoFile]
  /\ ticker = "none"
  /\ start_date = 0
  /\ end_date = 0
  /\ provider = NoProvider
  /\ fault = "none"
  /\ pre = NoFile
  /\ fetched = <<>>
  /\ generated = <<>>
  /\ providerCalls = 0
  /\ generatorCalls = 0
  /\ saved = FALSE
  /\ path = <<>>
  /\ outcome = "none"
  /\ ret = <<>>

\* --------------------------------------------------------- get_ohlcv_data
NoDownload == [fetched |-> <<>>, generated |-> <<>>, providerCalls |-> 0, generatorCalls |-> 0]

Downloaded(r) ==
  [fetched |-> r.df, generated |-> r.generated, providerCalls |-> 1,
   generatorCalls |-> r.generatorCalls]

\* what one call leaves behind: the file of the ticker and the call's observables
Finish(t, s, e, prov, flt, file, dl, sv, pth, out, df) ==
  /\ files' = [files EXCEPT ![t] = file]
  /\ ticker' = t
  /\ start_date' = s
  /\ end_date' = e
  /\ provider' = prov
  /\ fault' = flt
  /\ pre' = files[t]
  /\ fetched' = dl.fetched
  /\ generated' = dl.generated
  /\ providerCalls' = dl.providerCalls
  /\ generatorCalls' = dl.generatorCalls
  /\ saved' = sv
  /\ path' = pth
  /\ outcome' = out
  /\ ret' = df

\* a plausible slip: the fresh path saves the slice instead of the full frame
FetchFreshSavesSlice(t, s, e, prov, d, wflt) ==
  LET r == download_ohlcv(s, e, prov, d)
      pth == <<"START", "CHECK_EXISTENCE", "FETCH_FRESH">>
  IN IF wflt = "write"
     THEN Finish(t, s, e, prov, wflt, files[t], Downloaded(r), FALSE,
                 pth \o <<"RAISE">>, "StorageWriteError", <<>>)
     ELSE Finish(t, s, e, prov, wflt, save(files[t], FilterRange(r.df, s, e)),
                 Downloaded(r), TRUE, pth \o <<"RETURN">>, "returned", r.df)

\* lines 70-72: no file for the ticker; to_csv may fail (wflt = "write")
FetchFresh(t, s, e, prov, d, wflt) ==
  LET r == download_ohlcv(s, e, prov, d)
      pth == <<"START", "CHECK_EXISTENCE", "FETCH_FRESH">>
  IN IF r.raised
     THEN Finish(t, s, e, prov, "none", files[t],
                 [NoDownload EXCEPT !.providerCalls = 1], FALSE,
                 pth \o <<"RAISE">>, "ProviderError", <<>>)
     ELSE IF wflt = "write"
     THEN Finish(t, s, e, prov, wflt, files[t], Downloaded(r), FALSE,
                 pth \o <<"RAISE">>, "StorageWriteError", <<>>)
     ELSE Finish(t, s, e, prov, wflt, save(files[t], r.df),
                 Downloaded(r), TRUE, pth \o <<"RETURN">>, "returned", r.df)

\* a plausible slip: the re-fetched frame is written without the emptiness test
RefetchAlwaysSaves(t, s, e, prov, d, df_filtered) ==
  LET r == download_ohlcv(s, e, prov, d)
      pth == <<"START", "CHECK_EXISTENCE", "LOAD_AND_FILTER", "MISS", "REFETCH">>
  IN \/ Finish(t, s, e, prov, "write", files[t], Downloaded(r), FALSE,
               pth \o <<"RAISE">>, "StorageWriteError", <<>>)
     \/ Finish(t, s, e, prov, "none", save(files[t], r.df),
               Downloaded(r), TRUE, pth \o <<"RE-FILTER", "RETURN">>,
               "returned", FilterRange(r.df, s, e))

\* a plausible slip: the new frame is concatenated to the stored one
RefetchMerges(t, s, e, prov, d, df_filtered) ==
  LET r == download_ohlcv(s, e, prov, d)
      pth == <<"START", "CHECK_EXISTENCE", "LOAD_AND_FILTER", "MISS", "REFETCH">>
      merged == read_csv(files[t].rows) \o r.df
  IN IF r.df # <<>>
     THEN \/ Finish(t, s, e, prov, "write", files[t], Downloaded(r), FALSE,
                    pth \o <<"RAISE">>, "StorageWriteError", <<>>)
          \/ Finish(t, s, e, prov, "none", save(files[t], merged),
                    Downloaded(r), TRUE, pth \o <<"RE-FILTER", "RETURN">>,
                    "returned", FilterRange(merged, s, e))
     ELSE Finish(t, s, e, prov, "none", files[t], Downloaded(r), FALSE,
                 pth \o <<"RETURN">>, "returned", df_filtered)

\* lines 77-86: the filtered frame is empty; to_csv, when reached, may fail
Refetch(t, s, e, prov, d, df_filtered) ==
  LET r == download_ohlcv(s, e, prov, d)
      pth == <<"START", "CHECK_EXISTENCE", "LOAD_AND_FILTER", "MISS", "REFETCH">>
  IN IF r.raised
     THEN Finish(t, s, e, prov, "none", files[t],
                 [NoDownload EXCEPT !.providerCalls = 1], FALSE,
                 pth \o <<"RAISE">>, "ProviderError", <<>>)
     ELSE IF r.df # <<>>
     THEN \/ Finish(t, s, e, prov, "write", files[t], Downloaded(r), FALSE,
                    pth \o <<"RAISE">>, "StorageWriteError", <<>>)
          \/ Finish(t, s, e, prov, "none", save(files[t], r.df),
                    Downloaded(r), TRUE, pth \o <<"RE-FILTER", "RETURN">>,
                    "returned", FilterRange(r.df, s, e))
     ELSE Finish(t, s, e, prov, "none", files[t], Downloaded(r), FALSE,
                 pth \o <<"RETURN">>, "returned", df_filtered)

\* a plausible slip: a failed read is swallowed and an empty frame returned
LoadAndFilterAbsorbsReadError(t, s, e, rflt) ==
  LET pth == <<"START", "CHECK_EXISTENCE", "LOAD_AND_FILTER">>
  IN IF rflt = "read"
     THEN Finish(t, s, e, NoProvider, rflt, files[t], NoDownload, FALSE,
                 pth \o <<"RETURN">>, "returned", <<>>)
     ELSE LET df == read_csv(files[t].rows)
              df_filtered == FilterRange(df, s, e)
          IN IF df_filtered # <<>>
             THEN Finish(t, s, e, NoProvider, rflt, files[t], NoDownload, FALSE,
                         pth \o <<"RETURN">>, "returned", df_filtered)
             ELSE \E prov \in ProviderOutcomes : \E d \in DrawsFor(prov, s, e) :
                    Refetch(t, s, e, prov, d, df_filtered)

\* a plausible slip: a cache hit writes the slice back to the file
LoadAndFilterSavesSlice(t, s, e, rflt) ==
  LET pth == <<"START", "CHECK_EXISTENCE", "LOAD_AND_FILTER">>
  IN IF rflt = "read"
     THEN Finish(t, s, e, NoProvider, rflt, files[t], NoDownload, FALSE,
                 pth \o <<"RAISE">>, "StorageReadError", <<>>)
     ELSE LET df == read_csv(files[t].rows)
              df_filtered == FilterRange(df, s, e)
          IN IF df_filtered # <<>>
             THEN Finish(t, s, e, NoProvider, rflt, save(files[t], df_filtered),
                         NoDownload, TRUE, pth \o <<"RETURN">>, "returned", df_filtered)
             ELSE \E prov \in ProviderOutcomes : \E d \in DrawsFor(prov, s, e) :
                    Refetch(t, s, e, prov, d, df_filtered)

\* lines 73-86: a file exists for the ticker; read_csv may fail (rflt = "read")
LoadAndFilter(t, s, e, rflt) ==
  LET pth == <<"START", "CHECK_EXISTENCE", "LOAD_AND_FILTER">>
  IN IF rflt = "read"
     THEN Finish(t, s, e, NoProvider, rflt, files[t], NoDownload, FALSE,
                 pth \o <<"RAISE">>, "StorageReadError", <<>>)
     ELSE LET df == read_csv(files[t].rows)
              df_filtered == FilterRange(df, s, e)
          IN IF df_filtered # <<>>
             THEN Finish(t, s, e, NoProvider, rflt, files[t], NoDownload, FALSE,
                         pth \o <<"RETURN">>, "returned", df_filtered)
             ELSE \E prov \in ProviderOutcomes : \E d \in DrawsFor(prov, s, e) :
                    Refetch(t, s, e, prov, d, df_filtered)

get_ohlcv_data(t, s, e) ==
  /\ IF ~files[t].exists
     THEN \E prov \in ProviderOutcomes : \E d \in DrawsFor(prov, s, e) :
            \E wflt \in {"none", "write"} : FetchFresh(t, s, e, prov, d, wflt)
     ELSE \E rflt \in {"none", "read"} : LoadAndFilter(t, s, e, rflt)
  /\ UNCHANGED gvars
  /\ UNCHANGED svars

Next == \E t \in Tickers : \E s \in Days : \E e \in Days : get_ohlcv_data(t, s, e)

Spec == Init /\ [][Next]_vars

\* ------------------------------------------- the generator on its own
Generate ==
  /\ gPhase = "ready"
  /\ gOut' = generate_simulated_ohlcv(gStart, gEnd, gDraws)
  /\ gPhase' = "done"
  /\ UNCHANGED <<gStart, gEnd, gDraws>>
  /\ UNCHANGED hvars
  /\ UNCHANGED svars

NextGen == Generate

SpecGen == GenInit /\ [][NextGen]_vars

\* ------------------------------------- get_ohlcv_data, statement by statement
\* everything but the files is left alone by the stepwise callers
callvars == <<ticker, start_date, end_date, provider, fault, pre, fetched,
              generated, providerCalls, generatorCalls, saved, path, outcome, ret>>

\* one caller at a time, issuing one call after another
InitSteps ==
  /\ files = [t \in Tickers |-> NoFile]
  /\ calls = [c \in Callers |-> IF c = "A" THEN IdleCall ELSE OffCall]
  /\ lastWriter = "none"
  /\ mode = "loop"
  /\ NoCallYet
  /\ GenIdle

\* two callers, one call each, running concurrently
InitRace ==
  /\ files = [t \in Tickers |-> NoFile]
  /\ calls = [c \in Callers |-> IdleCall]
  /\ lastWriter = "none"
  /\ mode = "once"
  /\ NoCallYet
  /\ GenIdle

Step(c, rec) ==
  /\ calls' = [calls EXCEPT ![c] = rec]
  /\ UNCHANGED <<callvars, gvars, mode>>

\* lines 69-70: the call starts and tests os.path.exists
CheckExistence(c, t, s, e) ==
  /\ calls[c].pc = "START" \/ (calls[c].pc = "RETURN" /\ mode = "loop")
  /\ LET nxt == IF files[t].exists THEN "LOAD_AND_FILTER" ELSE "FETCH_FRESH"
     IN Step(c, [pc |-> nxt, t |-> t, start |-> s, end |-> e, df |-> <<>>,
                 path |-> <<"START", "CHECK_EXISTENCE", nxt>>, wrote |-> FALSE])
  /\ UNCHANGED <<files, lastWriter>>

\* line 71: _download_ohlcv on the fresh path
DownloadFresh(c) ==
  /\ calls[c].pc = "FETCH_FRESH"
  /\ \E prov \in ProviderOutcomes : \E d \in DrawsFor(prov, calls[c].start, calls[c].end) :
       LET r == download_ohlcv(calls[c].start, calls[c].end, prov, d)
       IN IF r.raised
          THEN Step(c, [calls[c] EXCEPT !.pc = "RAISE", !.path = @ \o <<"RAISE">>])
          ELSE Step(c, [calls[c] EXCEPT !.pc = "SAVE_FRESH", !.df = r.df])
  /\ UNCHANGED <<files, lastWriter>>

\* a plausible slip: the file is created exclusively, an existing file is kept
SaveFreshExclusive(c) ==
  /\ calls[c].pc = "SAVE_FRESH"
  /\ files' = [files EXCEPT ![calls[c].t] =
                 IF @.exists THEN @ ELSE save(@, calls[c].df)]
  /\ lastWriter' = c
  /\ Step(c, [calls[c] EXCEPT !.pc = "RETURN", !.path = @ \o <<"RETURN">>,
                               !.df = <<>>, !.wrote = TRUE])

\* lines 72 and 87: to_csv, then return
SaveFresh(c) ==
  /\ calls[c].pc = "SAVE_FRESH"
  /\ files' = [files EXCEPT ![calls[c].t] = save(@, calls[c].df)]
  /\ lastWriter' = c
  /\ Step(c, [calls[c] EXCEPT !.pc = "RETURN", !.path = @ \o <<"RETURN">>,
                               !.df = <<>>, !.wrote = TRUE])

\* lines 74-77 and 86-87: read_csv, filter, return on a non-empty slice
LoadFilter(c) ==
  /\ calls[c].pc = "LOAD_AND_FILTER"
  /\ LET df_filtered == FilterRange(read_csv(files[calls[c].t].rows),
                                    calls[c].start, calls[c].end)
     IN IF df_filtered # <<>>
        THEN Step(c, [calls[c] EXCEPT !.pc = "RETURN", !.path = @ \o <<"RETURN">>])
        ELSE Step(c, [calls[c] EXCEPT !.pc = "MISS", !.path = @ \o <<"MISS">>])
  /\ UNCHANGED <<files, lastWriter>>

\* a plausible slip: an empty re-fetch ends the call with an error
DownloadRefetchRaisesOnEmpty(c) ==
  /\ calls[c].pc = "MISS"
  /\ \E prov \in ProviderOutcomes : \E d \in DrawsFor(prov, calls[c].start, calls[c].end) :
       LET r == download_ohlcv(calls[c].start, calls[c].end, prov, d)
       IN IF r.df # <<>>
          THEN Step(c, [calls[c] EXCEPT !.pc = "SAVE_REFETCH", !.df = r.df,
                                       !.path = @ \o <<"REFETCH">>])
          ELSE Step(c, [calls[c] EXCEPT !.pc = "RAISE",
                                       !.path = @ \o <<"REFETCH", "RAISE">>])
  /\ UNCHANGED <<files, lastWriter>>

\* lines 79-80 and 83-87: _download_ohlcv on a miss; an empty frame is returned
DownloadRefetch(c) ==
  /\ calls[c].pc = "MISS"
  /\ \E prov \in ProviderOutcomes : \E d \in DrawsFor(prov, calls[c].start, calls[c].end) :
       LET r == download_ohlcv(calls[c].start, calls[c].end, prov, d)
       IN IF r.raised
          THEN Step(c, [calls[c] EXCEPT !.pc = "RAISE", !.path = @ \o <<"RAISE">>])
          ELSE IF r.df # <<>>
          THEN Step(c, [calls[c] EXCEPT !.pc = "SAVE_REFETCH", !.df = r.df,
                                       !.path = @ \o <<"REFETCH">>])
          ELSE Step(c, [calls[c] EXCEPT !.pc = "RETURN",
                                       !.path = @ \o <<"REFETCH", "RETURN">>])
  /\ UNCHANGED <<files, lastWriter>>

\* lines 81-82 and 86-87: to_csv, filter again, return
SaveRefetch(c) ==
  /\ calls[c].pc = "SAVE_REFETCH"
  /\ files' = [files EXCEPT ![calls[c].t] = save(@, calls[c].df)]
  /\ lastWriter' = c
  /\ Step(c, [calls[c] EXCEPT !.pc = "RETURN", !.path = @ \o <<"RE-FILTER", "RETURN">>,
                               !.df = <<>>, !.wrote = TRUE])

\* the statements after the existence test: a started call keeps running
Run(c) ==
  \/ DownloadFresh(c)
  \/ SaveFresh(c)
  \/ LoadFilter(c)
  \/ DownloadRefetch(c)
  \/ SaveRefetch(c)

NextSteps ==
  \E c \in Callers :
    \/ \E t \in Tickers : \E s \in Days : \E e \in Days : CheckExistence(c, t, s, e)
    \/ DownloadFresh(c)
    \/ SaveFresh(c)
    \/ LoadFilter(c)
    \/ DownloadRefetch(c)
    \/ SaveRefetch(c)

SpecSteps == InitSteps /\ [][NextSteps]_vars /\ \A c \in Callers : WF_vars(Run(c))

SpecRace == InitRace /\ [][NextSteps]_vars

\* ------------------------------------------------------------------ claims
\* a bar as the row the file holds for it
RowOfBar(b) == <<b.Date, b.Open, b.High, b.Low, b.Close, b.Volume>>

RowsOf(df) == [i \in 1..Len(df) |-> RowOfBar(df[i])]

\* the positions of the stored rows whose date lies in [s, e]
InRange(rows, s, e) == {i \in 1..Len(rows) : rows[i][1] >= s /\ rows[i][1] <= e}

\* df is exactly the rows at the positions idx, in file order
IsSliceOf(df, rows, idx) ==
  /\ Len(df) = Cardinality(idx)
  /\ \A i \in idx : RowOfBar(df[Cardinality({j \in idx : j <= i})]) = rows[i]

ProviderFailed == providerCalls = 1 /\ (provider.raises \/ provider.df = <<>>)

\* C1: with start <= end and a store that can be read and written, a call ends
\* by returning a series, also when the provider raised or returned nothing
ProviderFailureAbsorbed ==
  (outcome # "none" /\ start_date <= end_date /\ fault = "none") => outcome = "returned"

ProviderRaisedAndReturned ==
  outcome = "returned" /\ start_date <= end_date /\ providerCalls = 1 /\ provider.raises

\* C2: on a ticker without a file, with start <= end, a provider that raises or
\* returns nothing makes the call return the generator's frame: end - start + 1
\* bars, one per day of [start, end], each with the OHLC ordering
FallbackReturnsSyntheticRange ==
  (outcome # "none" /\ ~pre.exists /\ start_date <= end_date /\ fault = "none"
     /\ ProviderFailed)
  => /\ outcome = "returned"
     /\ generatorCalls = 1
     /\ ret = generated
     /\ Len(ret) = end_date - start_date + 1
     /\ \A i \in 1..Len(ret) : ret[i].Date = start_date + i - 1 /\ OhlcOrdered(ret[i])

FallbackOnFreshTicker ==
  /\ outcome = "returned" /\ ~pre.exists /\ ProviderFailed
  /\ end_date - start_date >= 1 /\ Len(ret) = end_date - start_date + 1

\* C3: every bar the synthetic generator produces satisfies low <= open <= high,
\* low <= close <= high and low <= high, for every combination of draws
GeneratedBarsOrdered ==
  gPhase = "done" => \A i \in 1..Len(gOut) : OhlcOrdered(gOut[i])

GeneratedBothDirections ==
  /\ gPhase = "done"
  /\ \E i \in 1..Len(gOut) : gOut[i].Open > gOut[i].Close
  /\ \E i \in 1..Len(gOut) : gOut[i].Open < gOut[i].Close

GeneratedShape ==
  (gPhase = "done" /\ gStart <= gEnd)
  => /\ Len(gOut) = gEnd - gStart + 1
     /\ gOut[1].Date = gStart
     /\ gOut[Len(gOut)].Date = gEnd
     /\ \A i \in 1..(Len(gOut) - 1) : gOut[i + 1].Date = gOut[i].Date + 1
     /\ \A i, j \in 1..Len(gOut) : i # j => gOut[i].Date # gOut[j].Date

GeneratedSeveralDays == gPhase = "done" /\ gEnd > gStart /\ Len(gOut) = gEnd - gStart + 1

\* C6: after a call that saved a series whose slice for [start, end] is not
\* empty, the next call with the same arguments returns the same rows and
\* invokes neither the provider nor the generator
CacheHitIdempotent ==
  [][ ( /\ outcome = "returned" /\ saved
        /\ InRange(files[ticker].rows, start_date, end_date) # {}
        /\ ticker' = ticker /\ start_date' = start_date /\ end_date' = end_date
        /\ outcome' = "returned" )
      => (ret' = ret /\ providerCalls' = 0 /\ generatorCalls' = 0) ]_vars

\* C7: on every path the returned bars are dated within [start, end]
ReturnedWithinRange ==
  outcome = "returned"
  => \A i \in 1..Len(ret) : ret[i].Date >= start_date /\ ret[i].Date <= end_date

CacheMissReplacesFile ==
  (outcome = "returned" /\ pre.exists
     /\ InRange(pre.rows, start_date, end_date) = {} /\ fetched # <<>>)
  => /\ providerCalls = 1
     /\ files[ticker].exists
     /\ files[ticker].rows = RowsOf(fetched)

OldSeriesReplaced ==
  /\ outcome = "returned" /\ pre.exists /\ pre.rows # <<>>
  /\ InRange(pre.rows, start_date, end_date) = {} /\ fetched # <<>>
  /\ \A i \in 1..Len(pre.rows) : \A j \in 1..Len(files[ticker].rows) :
       files[ticker].rows[j] # pre.rows[i]

\* C10: after a call on a ticker without a file returns, the file exists and
\* holds the full series obtained from the provider or the generator
FirstRequestCreatesFile ==
  (outcome = "returned" /\ ~pre.exists)
  => /\ providerCalls = 1
     /\ fetched = (IF provider.raises \/ provider.df = <<>> THEN generated ELSE provider.df)
     /\ files[ticker].exists
     /\ files[ticker].rows = RowsOf(fetched)

FileCreatedWithBarsOutsideRange ==
  /\ outcome = "returned" /\ ~pre.exists /\ files[ticker].exists
  /\ \E i \in 1..Len(files[ticker].rows) :
       files[ticker].rows[i][1] < start_date \/ files[ticker].rows[i][1] > end_date

\* C11: a failed read or write of the ticker's file ends the call in failure:
\* nothing is returned, the generator does not mask it, and after a failed
\* read the provider was not invoked and the file is as it was
StorageFailurePropagates ==
  (outcome # "none" /\ fault # "none")
  => /\ outcome = (IF fault = "read" THEN "StorageReadError" ELSE "StorageWriteError")
     /\ ret = <<>>
     /\ ~saved
     /\ fault = "read" => (providerCalls = 0 /\ generatorCalls = 0 /\ files[ticker] = pre)

ReadFailedOnStoredSeries ==
  fault = "read" /\ outcome = "StorageReadError" /\ pre.exists /\ pre.rows # <<>>

\* C13 (as amended): every generated volume lies in [100000, 9999999]; the
\* upper end 10000000 is never drawn
GeneratedVolumeBelowHigh ==
  gPhase = "done"
  => \A i \in 1..Len(gOut) : gOut[i].Volume >= VolumeLow /\ gOut[i].Volume <= VolumeHigh - 1

GeneratedVolumeExtremes ==
  /\ gPhase = "done"
  /\ \E i \in 1..Len(gOut) : gOut[i].Volume = VolumeLow
  /\ \E i \in 1..Len(gOut) : gOut[i].Volume = VolumeHigh - 1

\* C13 (as claimed): no generated volume lies outside [100000, 10000000] and
\* both ends of that interval are volumes the generator can draw
VolumeIntervalInclusive ==
  /\ \A i \in 1..Len(gOut) : gOut[i].Volume >= VolumeLow /\ gOut[i].Volume <= VolumeHigh
  /\ \A v \in {VolumeLow, VolumeHigh} : v \in RandInt(VolumeLow, VolumeHigh, {v})

\* C14 (as amended): the candidate high and low already satisfy the ordering
\* for every draw, and the clamp leaves both unchanged
ClampChangesNothing ==
  gPhase = "done"
  => \A i \in 1..Len(gOut) :
       /\ CandidateHigh(gDraws, i) >= Maximum(gOut[i].Open, gOut[i].Close)
       /\ CandidateLow(gDraws, i) <= Minimum(gOut[i].Open, gOut[i].Close)
       /\ gOut[i].High = CandidateHigh(gDraws, i)
       /\ gOut[i].Low = CandidateLow(gDraws, i)

GeneratedWithSmallestSpread ==
  /\ gPhase = "done"
  /\ \E i \in 1..Len(gOut) :
       gDraws.bar[i].high = 1 /\ gOut[i].Open # gOut[i].Close /\ gOut[i].High > gOut[i].Low

\* C14 (as claimed): for the draws of some run the candidate high lies below
\* max(open, close) or the candidate low above min(open, close)
ClampIsLoadBearing ==
  gPhase = "done"
  => \E st \in Days : \E en \in Days : \E d \in DrawVectors(en - st + 1) :
       \E i \in 1..(en - st + 1) :
         \/ CandidateHigh(d, i) < Maximum(OpenPrice(d, i), ClosePrice(d, i))
         \/ CandidateLow(d, i) > Minimum(OpenPrice(d, i), ClosePrice(d, i))

\* C15: when the file exists, none of its bars is dated in [start, end] and the
\* re-fetch yields an empty series, the call returns an empty series without
\* error and the file is as it was
EmptyRefetchKeepsFile ==
  (outcome # "none" /\ pre.exists /\ InRange(pre.rows, start_date, end_date) = {}
     /\ providerCalls = 1 /\ fetched = <<>>)
  => /\ outcome = "returned"
     /\ ret = <<>>
     /\ ~saved
     /\ files[ticker] = pre

EmptyRefetchOnStoredSeries ==
  /\ outcome = "returned" /\ pre.exists /\ pre.rows # <<>>
  /\ providerCalls = 1 /\ generatorCalls = 1 /\ fetched = <<>> /\ ret = <<>>

FallbackOnlyAfterProviderFailure ==
  /\ providerCalls <= 1
  /\ generatorCalls <= 1
  /\ generatorCalls = 1 => (providerCalls = 1 /\ (provider.raises \/ provider.df = <<>>))
  /\ (providerCalls = 1 /\ ~provider.raises /\ provider.df # <<>>)
       => (generatorCalls = 0 /\ generated = <<>> /\ fetched = provider.df)

ProviderFrameKeptOnMiss ==
  /\ outcome = "returned" /\ pre.exists /\ providerCalls = 1
  /\ provider.df # <<>> /\ fetched = provider.df /\ generatorCalls = 0

\* C19: an existing file is written only on the cache-miss path and only with a
\* non-empty new series, so a non-empty persisted series never becomes empty
OverwriteOnlyOnMissWithData ==
  /\ (pre.exists /\ (saved \/ files[ticker] # pre))
       => /\ InRange(pre.rows, start_date, end_date) = {}
          /\ providerCalls = 1
          /\ fetched # <<>>
          /\ files[ticker].rows = RowsOf(fetched)
  /\ (outcome # "none" /\ pre.rows # <<>>) => files[ticker].rows # <<>>

NonEmptySeriesOverwritten ==
  /\ outcome = "returned" /\ saved /\ pre.exists /\ pre.rows # <<>>
  /\ files[ticker] # pre

\* C12: with two concurrent callers nothing serializes check, fetch and write:
\* a caller's write replaces the file with that caller's own frame whatever the
\* other caller has written since the check
UnserializedOverwrite ==
  [][ \A c \in Callers :
        (calls[c].pc \in {"SAVE_FRESH", "SAVE_REFETCH"} /\ calls'[c].pc = "RETURN")
        => /\ files'[calls[c].t].exists
           /\ files'[calls[c].t].rows = RowsOf(calls[c].df) ]_vars

\* both callers saw the ticker absent and fetched, the second write replaced the
\* first, and the file holds no bar of the first writer's range
LostUpdate ==
  \E a \in Callers : \E b \in Callers \ {a} :
    /\ calls[a].pc = "RETURN" /\ calls[b].pc = "RETURN"
    /\ calls[a].path = <<"START", "CHECK_EXISTENCE", "FETCH_FRESH", "RETURN">>
    /\ calls[b].path = <<"START", "CHECK_EXISTENCE", "FETCH_FRESH", "RETURN">>
    /\ calls[a].wrote /\ calls[b].wrote
    /\ calls[a].t = calls[b].t
    /\ lastWriter = b
    /\ calls[a].start <= calls[a].end
    /\ InRange(files[calls[a].t].rows, calls[a].start, calls[a].end) = {}

AllowedPaths ==
  { <<"START", "CHECK_EXISTENCE", "FETCH_FRESH", "RETURN">>,
    <<"START", "CHECK_EXISTENCE", "LOAD_AND_FILTER", "RETURN">>,
    <<"START", "CHECK_EXISTENCE", "LOAD_AND_FILTER", "MISS", "REFETCH", "RETURN">>,
    <<"START", "CHECK_EXISTENCE", "LOAD_AND_FILTER", "MISS", "REFETCH", "RE-FILTER", "RETURN">> }

IsPrefix(p, q) == Len(p) <= Len(q) /\ \A i \in 1..Len(p) : p[i] = q[i]

PathShape(c) ==
  /\ calls[c].pc # "RAISE"
  /\ \E q \in AllowedPaths : IsPrefix(calls[c].path, q)

\* the branch a call takes is the one the file's state at that moment selects
PathChoice(c) ==
  LET k == calls'[c]
      p == k.path
  IN p # calls[c].path
     => /\ Len(p) = 3 => ((p[3] = "FETCH_FRESH") <=> ~files[k.t].exists)
        /\ p[Len(p)] = "MISS" => InRange(files[k.t].rows, k.start, k.end) = {}
        /\ p = <<"START", "CHECK_EXISTENCE", "LOAD_AND_FILTER", "RETURN">>
             => InRange(files[k.t].rows, k.start, k.end) # {}

====
